---- MODULE Spec2Model ----
(***************************************************************************)
(* Model of dmypy-ls (src/dmypy_ls/__init__.py): a language server that    *)
(* runs mypy on DidOpen / DidChange / DidSave and publishes the report as  *)
(* LSP diagnostics.  Text (URIs, paths, buffer text, report lines) is a    *)
(* sequence of one-character strings, so that slicing, suffix tests and    *)
(* the report regular expression are computed, not assumed.                *)
(***************************************************************************)
EXTENDS Integers, Sequences, FiniteSets, TLC

\* ------------------------------------------------------------------ text

\* Python's None where a text may stand: no text is this one-element sequence.
None == <<"None">>

Digits == {"0", "1", "2", "3", "4", "5", "6", "7", "8", "9"}

DigitVal(c) ==
    CASE c = "0" -> 0 [] c = "1" -> 1 [] c = "2" -> 2 [] c = "3" -> 3
      [] c = "4" -> 4 [] c = "5" -> 5 [] c = "6" -> 6 [] c = "7" -> 7
      [] c = "8" -> 8 [] c = "9" -> 9

\* s[a..b] as Python's s[a-1:b]; empty when b < a.
Slice(s, a, b) == IF b < a THEN <<>> ELSE SubSeq(s, a, b)

\* Least index i >= from with s[i] = c, or 0 when there is none.
RECURSIVE IndexOf(_, _, _)
IndexOf(s, c, from) ==
    IF from > Len(s) THEN 0
    ELSE IF s[from] = c THEN from
    ELSE IndexOf(s, c, from + 1)

\* str.startswith
StartsWith(s, pre) ==
    /\ Len(pre) <= Len(s)
    /\ SubSeq(s, 1, Len(pre)) = pre

\* A wrong suffix test: compares the whole string.
EndsWithWhole(s, suf) == s = suf

\* str.endswith (line 198: uri.endswith(data["file"]))
EndsWith(s, suf) ==
    /\ Len(suf) <= Len(s)
    /\ SubSeq(s, Len(s) - Len(suf) + 1, Len(s)) = suf

\* The pattern [-+]?\d+ (rows and columns of MYPY_OUTPUT_RE).
IsSignedInt(s) ==
    LET body == IF Len(s) > 0 /\ s[1] \in {"-", "+"} THEN Slice(s, 2, Len(s)) ELSE s
    IN  /\ Len(body) >= 1
        /\ \A i \in 1..Len(body) : body[i] \in Digits

RECURSIVE DigitsVal(_)
DigitsVal(s) ==
    IF s = <<>> THEN 0
    ELSE 10 * DigitsVal(SubSeq(s, 1, Len(s) - 1)) + DigitVal(s[Len(s)])

\* int(str) for a string matching [-+]?\d+ (lines 201, 205).
ParseInt(s) ==
    IF s[1] = "-" THEN 0 - DigitsVal(Slice(s, 2, Len(s)))
    ELSE IF s[1] = "+" THEN DigitsVal(Slice(s, 2, Len(s)))
    ELSE DigitsVal(s)

\* str.splitlines() of the report (line 192): the pieces between "\n", with no
\* empty piece after a final "\n".  "\n" is the only line boundary of the
\* modelled alphabet.
RECURSIVE SplitLines(_)
SplitLines(s) ==
    IF s = <<>> THEN <<>>
    ELSE LET n == IndexOf(s, "\n", 1)
         IN  IF n = 0 THEN <<s>>
             ELSE <<Slice(s, 1, n - 1)>> \o SplitLines(Slice(s, n + 1, Len(s)))

\* --------------------------------------------------------- MYPY_OUTPUT_RE

NoMatch == [matched |-> FALSE]

\* The tail (?:\ \ \[(?P<code>[^\]]+)\])?$ after a message that ends at k:
\* the positions k at which the bracketed code alternative matches.
CodeStarts(rest) ==
    {k \in 0..Len(rest) :
        /\ Len(rest) >= k + 5
        /\ rest[k + 1] = " " /\ rest[k + 2] = " " /\ rest[k + 3] = "["
        /\ rest[Len(rest)] = "]"
        /\ \A i \in (k + 4)..(Len(rest) - 1) : rest[i] # "]"}

\* A greedy message: the optional code group never takes part.
SplitMessageGreedy(rest) == [message |-> rest, code |-> None]

\* (?P<message>.*?)(?:\ \ \[(?P<code>[^\]]+)\])?$ : the message is the
\* shortest prefix after which the rest of the line is empty or is "  [code]".
SplitMessage(rest) ==
    LET ks == CodeStarts(rest)
    IN  IF ks = {} THEN [message |-> rest, code |-> None]
        ELSE LET k == CHOOSE x \in ks : \A y \in ks : x <= y
             IN  [message |-> Slice(rest, 1, k),
                  code    |-> Slice(rest, k + 4, Len(rest) - 1)]

\* From position p (after "row:" and the optional "col:"): "[ ]severity:[ ]"
\* and the message with its optional code.
MatchTail(line, file, row, col, p) ==
    IF p > Len(line) \/ line[p] # " " THEN NoMatch
    ELSE LET i4 == IndexOf(line, ":", p + 1)
         IN  IF i4 <= p + 1 THEN NoMatch
             ELSE IF i4 + 1 > Len(line) \/ line[i4 + 1] # " " THEN NoMatch
             ELSE LET mc == SplitMessage(Slice(line, i4 + 2, Len(line)))
                  IN  [matched  |-> TRUE,
                       file     |-> file,
                       row      |-> row,
                       col      |-> col,
                       severity |-> Slice(line, p + 1, i4 - 1),
                       message  |-> mc.message,
                       code     |-> mc.code]

\* MYPY_OUTPUT_RE.match(line).groupdict(), or NoMatch when match() is None.
Match(line) ==
    LET i1 == IndexOf(line, ":", 1)
    IN  IF i1 <= 1 THEN NoMatch
        ELSE LET i2  == IndexOf(line, ":", i1 + 1)
                 row == Slice(line, i1 + 1, i2 - 1)
             IN  IF i2 = 0 \/ ~IsSignedInt(row) THEN NoMatch
                 ELSE LET file == Slice(line, 1, i1 - 1)
                          i3   == IndexOf(line, ":", i2 + 1)
                          col  == Slice(line, i2 + 1, i3 - 1)
                      IN  IF i3 # 0 /\ IsSignedInt(col)
                          THEN MatchTail(line, file, row, col, i3 + 1)
                          ELSE MatchTail(line, file, row, None, i2 + 1)

\* ------------------------------------------------------------ paths, bytes

\* The pieces of s between occurrences of sep (str.split(sep)).
RECURSIVE Split(_, _)
Split(s, sep) ==
    LET n == IndexOf(s, sep, 1)
    IN  IF n = 0 THEN <<s>>
        ELSE <<Slice(s, 1, n - 1)>> \o Split(Slice(s, n + 1, Len(s)), sep)

RECURSIVE Join(_, _)
Join(parts, sep) ==
    IF parts = <<>> THEN <<>>
    ELSE IF Len(parts) = 1 THEN parts[1]
    ELSE parts[1] \o <<sep>> \o Join(Tail(parts), sep)

\* The component loop of posixpath.normpath: "" and "." are dropped, ".."
\* removes the component before it (or stays, in a relative path).
RECURSIVE NormComps(_, _, _)
NormComps(comps, new, rooted) ==
    IF comps = <<>> THEN new
    ELSE LET c == Head(comps)
         IN  IF c = <<>> \/ c = <<".">> THEN NormComps(Tail(comps), new, rooted)
             ELSE IF c # <<".", ".">> THEN NormComps(Tail(comps), Append(new, c), rooted)
             ELSE IF (~rooted /\ new = <<>>) \/ (new # <<>> /\ new[Len(new)] = <<".", ".">>)
                  THEN NormComps(Tail(comps), Append(new, c), rooted)
             ELSE IF new # <<>>
                  THEN NormComps(Tail(comps), SubSeq(new, 1, Len(new) - 1), rooted)
             ELSE NormComps(Tail(comps), new, rooted)

\* os.path.normpath (line 171), POSIX flavour.
NormPath(p) ==
    IF p = <<>> THEN <<".">>
    ELSE LET slashes  == IF ~StartsWith(p, <<"/">>) THEN <<>>
                         ELSE IF StartsWith(p, <<"/", "/">>) /\ ~StartsWith(p, <<"/", "/", "/">>)
                              THEN <<"/", "/">>
                              ELSE <<"/">>
             joined   == slashes \o Join(NormComps(Split(p, "/"), <<>>, slashes # <<>>), "/")
         IN  IF joined = <<>> THEN <<".">> ELSE joined

FileScheme == <<"f", "i", "l", "e", ":", "/", "/">>

\* text_doc.uri[7:] normalised (line 171).
FilePath(uri) == NormPath(Slice(uri, Len(FileScheme) + 1, Len(uri)))

\* ord() of the characters buffer texts are made of.
Ord(c) == CASE c = "x" -> 120 [] c = "y" -> 121

\* str.encode(): the UTF-8 bytes of an ASCII text (lines 133, 134).
Encode(text) == [i \in 1..Len(text) |-> Ord(text[i])]

\* mypy.util.hash_digest (line 134), as a polynomial digest of the bytes: equal
\* bytes give equal digests.
RECURSIVE hash_digest(_)
hash_digest(bytes) ==
    IF bytes = <<>> THEN 7
    ELSE (31 * hash_digest(SubSeq(bytes, 1, Len(bytes) - 1)) + bytes[Len(bytes)]) % 65521

\* ------------------------------------------------------ modelled inputs

\* Documents the editor sends events for: one backed by the file /a.py and
\* one with no backing path (its URI does not start with file://).
UriFile     == FileScheme \o <<"/", "a", ".", "p", "y">>
UriUntitled == <<"u", ":", "a", ".", "p", "y">>
URIs        == {UriFile, UriUntitled}

\* Buffer texts: the empty buffer and a non-empty one.
Texts == {<<>>, <<"x">>}

\* What is on disk at /a.py while the file exists.
DiskText == <<"y">>

SevError   == <<"e", "r", "r", "o", "r">>
SevWarning == <<"w", "a", "r", "n", "i", "n", "g">>
SevNote    == <<"n", "o", "t", "e">>
SevFatal   == <<"f", "a", "t", "a", "l">>

\* "/a.py:3:12: error: m  [c]"
LineCoded == <<"/", "a", ".", "p", "y", ":", "3", ":", "1", "2", ":", " ">>
             \o SevError \o <<":", " ", "m", " ", " ", "[", "c", "]">>
\* "a.py:5: note: n"          (no column, no code)
LineNote == <<"a", ".", "p", "y", ":", "5", ":", " ">> \o SevNote \o <<":", " ", "n">>
\* "b.py:1:1: warning: w"     (another file of the import graph)
LineOther == <<"b", ".", "p", "y", ":", "1", ":", "1", ":", " ">>
             \o SevWarning \o <<":", " ", "w">>
\* "a.py:2:2: fatal: k"       (a severity MYPY_SEVERITY does not list)
LineFatal == <<"a", ".", "p", "y", ":", "2", ":", "2", ":", " ">>
             \o SevFatal \o <<":", " ", "k">>
\* "ok"                       (does not match the grammar)
LineGarbage == <<"o", "k">>

\* "".join(line + "\n" for line in lines): how mypy and dmypy write a report.
RECURSIVE Report(_)
Report(lines) ==
    IF lines = <<>> THEN <<>> ELSE Head(lines) \o <<"\n">> \o Report(Tail(lines))

\* The reports the engine may return for a check: no finding; findings of
\* two files around a line outside the grammar; a finding followed by a line
\* of unlisted severity.  Rows and columns are 1-based, as mypy writes them.
ReportClean == Report(<<>>)
ReportMixed == Report(<<LineOther, LineCoded, LineGarbage, LineNote>>)
ReportFatal == Report(<<LineCoded, LineFatal>>)
Reports     == {ReportClean, ReportMixed, ReportFatal}

\* ------------------------------------------------------------- state

VARIABLES
    configured,   \* setup() has run: self.fscache, self.options, self.finder exist
    useDmypy,     \* self._use_dmypy, fixed by setup()
    followImports,\* what self.server.following_imports() answers
    docs,         \* the workspace: URI -> buffer text, or NoDoc
    disk,         \* the paths that exist on disk
    read_cache,   \* fscache.read_cache: path -> bytes, or Absent
    hash_cache,   \* fscache.hash_cache: path -> digest, or Absent
    pc,           \* per handler: where it is in validate()
    uri,          \* per handler: params.text_document.uri
    source,       \* per handler: the local `source`, or Unbound
    res,          \* per handler: the local `res`, or Unbound
    calls,        \* per handler: engine entry points its validate() has called
    entry,        \* per handler: the engine entry point it called last, or None
    pub,          \* per handler: how many times it called publish_diagnostics
    client,       \* the editor: URI -> the list of the last publish_diagnostics, or NoPub
    gone,         \* per handler: the backing file was missing when its event came
    recording,    \* history: the two history variables below are kept
    flushedSince, \* history: the fscache was flushed since the engine was last entered
    shownFrom,    \* history: URI -> the text the list the editor shows was computed from
    fields,       \* regex: the fields a report line is built from, or NoFields
    parsed        \* regex: MYPY_OUTPUT_RE.match of that line, or NotParsed

\* What setup() fixes.
mode == <<configured, useDmypy, followImports>>

\* The history variables: they are written, never read, by the server.
history == <<recording, flushedSince, shownFrom>>

\* The variables of the regex round trip.
regex == <<fields, parsed>>

vars == <<mode, docs, disk, read_cache, hash_cache,
          pc, uri, source, res, calls, entry, pub, client, gone, history, regex>>

\* How many editor events one behaviour handles.
MaxEvents == 2

\* The threads of the pool that runs the @ls.thread() handlers: line 75 leaves
\* pygls's max_workers at its default.
MaxWorkers == 2

Events == 1..MaxEvents

\* The workspace holds no document of the URI.
NoDoc == <<"NoDoc">>
\* Reading a document's text raised.
NoText == <<"NoText">>
\* No entry in a cache of the FileSystemCache.
Absent == [cached |-> FALSE]
Cached(v) == [cached |-> TRUE, value |-> v]
\* A local variable of validate() that nothing was assigned to.
Unbound == [bound |-> FALSE]
\* The editor was sent nothing for a URI.
NoPub == [shown |-> FALSE]
Shown(diagnostics) == [shown |-> TRUE, diagnostics |-> diagnostics]

\* str.startswith("file://") (line 170)
HasBackingPath(u) == StartsWith(u, FileScheme)

\* filepath of line 171 for each modelled URI that has one.
FilePaths == [u \in {v \in URIs : HasBackingPath(v)} |-> FilePath(u)]

UriPath(u) == FilePaths[u]

Paths == {FilePaths[u] : u \in DOMAIN FilePaths}

\* ------------------------------------------------- diagnostic translator

\* MYPY_SEVERITY (lines 66-70)
MYPY_SEVERITY ==
    (SevError :> "Error") @@ (SevWarning :> "Warning") @@ (SevNote :> "Information")

\* A wrong range: the end is not widened by one column.
DiagnosticNoWiden(data) ==
    LET code_line == ParseInt(data.row)
        col       == IF data.col = None THEN 1 ELSE ParseInt(data.col)
    IN  [start    |-> <<code_line - 1, col - 1>>,
         end      |-> <<code_line - 1, col - 1>>,
         message  |-> data.message,
         code     |-> data.code,
         severity |-> MYPY_SEVERITY[data.severity],
         source   |-> "dmypy-ls"]

\* types.Diagnostic(...) of lines 201-215, for a match whose severity is listed.
Diagnostic(data) ==
    LET code_line == ParseInt(data.row)
        col       == IF data.col = None THEN 1 ELSE ParseInt(data.col)
    IN  [start    |-> <<code_line - 1, col - 1>>,
         end      |-> <<code_line - 1, col>>,
         message  |-> data.message,
         code     |-> data.code,
         severity |-> MYPY_SEVERITY[data.severity],
         source   |-> "dmypy-ls"]

\* Whether building the Diagnostic raises: the KeyError of
\* MYPY_SEVERITY[data["severity"]] (line 213).
DiagnosticRaises(data) == data.severity \notin DOMAIN MYPY_SEVERITY

\* A wrong loop: an exception ends the loop and what was collected is kept.
RECURSIVE DiagnosticLoopSwallow(_, _, _)
DiagnosticLoopSwallow(u, lines, diagnostics) ==
    IF lines = <<>> THEN [raised |-> FALSE, diagnostics |-> diagnostics]
    ELSE LET m == Match(Head(lines))
         IN  IF ~m.matched THEN DiagnosticLoopSwallow(u, Tail(lines), diagnostics)
             ELSE IF ~EndsWith(u, m.file) THEN DiagnosticLoopSwallow(u, Tail(lines), diagnostics)
             ELSE IF DiagnosticRaises(m) THEN [raised |-> FALSE, diagnostics |-> diagnostics]
             ELSE DiagnosticLoopSwallow(u, Tail(lines), Append(diagnostics, Diagnostic(m)))

\* The for loop of lines 192-216 over the lines still to read: an unmatched
\* line is logged and skipped, a line of another file is skipped, any other
\* line appends its Diagnostic, and an exception leaves the function.
RECURSIVE DiagnosticLoop(_, _, _)
DiagnosticLoop(u, lines, diagnostics) ==
    IF lines = <<>> THEN [raised |-> FALSE, diagnostics |-> diagnostics]
    ELSE LET m == Match(Head(lines))
         IN  IF ~m.matched THEN DiagnosticLoop(u, Tail(lines), diagnostics)
             ELSE IF ~EndsWith(u, m.file) THEN DiagnosticLoop(u, Tail(lines), diagnostics)
             ELSE IF DiagnosticRaises(m) THEN [raised |-> TRUE, diagnostics |-> diagnostics]
             ELSE DiagnosticLoop(u, Tail(lines), Append(diagnostics, Diagnostic(m)))

\* A wrong start: the list carries on from what the editor already shows.
TranslateAccumulating(u, out) ==
    DiagnosticLoop(u, SplitLines(out), IF client[u].shown THEN client[u].diagnostics ELSE <<>>)

\* Lines 191-216 of publish_result_to_diagnostic, tabulated over the modelled
\* URIs and reports: diagnostics = [] and the loop over res["out"].splitlines().
Translations ==
    [u \in URIs |-> [out \in Reports |-> DiagnosticLoop(u, SplitLines(out), <<>>)]]

\* What publish_result_to_diagnostic builds for a URI and a report.
Translate(u, out) == Translations[u][out]

\* ---------------------------------------------------------- the server

\* No engine entry point was called.
NoEntry == "none"

\* No report line is being matched.
NoFields == [built |-> FALSE]
NotParsed == [parsed |-> FALSE]

\* MypyServer() (lines 74-89, and `ls` of line 221): setup() has not run, the
\* mode is one-shot, the workspace is empty; no handler has run.
Constructed ==
    /\ configured = FALSE
    /\ useDmypy = FALSE
    /\ followImports = FALSE
    /\ docs = [u \in URIs |-> NoDoc]
    /\ disk = Paths
    /\ read_cache = [p \in Paths |-> Absent]
    /\ hash_cache = [p \in Paths |-> Absent]
    /\ pc = [e \in Events |-> "idle"]
    /\ uri = [e \in Events |-> None]
    /\ source = [e \in Events |-> Unbound]
    /\ res = [e \in Events |-> Unbound]
    /\ calls = [e \in Events |-> 0]
    /\ entry = [e \in Events |-> NoEntry]
    /\ pub = [e \in Events |-> 0]
    /\ client = [u \in URIs |-> NoPub]
    /\ gone = [e \in Events |-> FALSE]
    /\ flushedSince = FALSE
    /\ shownFrom = [u \in URIs |-> NoText]

\* The server as constructed; no history is kept and no line is matched.
Init ==
    /\ Constructed
    /\ recording = FALSE
    /\ fields = NoFields
    /\ parsed = NotParsed

\* A history variable takes a new value only where the history is kept.
Recorded(old, new) == IF recording THEN new ELSE old

\* setup() (lines 91-127), called by main() before the io loop starts (lines
\* 259-261): the FileSystemCache, the options and the finder are created and
\* the mode is fixed; in dmypy mode the Server is created, and what its
\* following_imports() answers is fixed by the options (follow_imports of the
\* mypy configuration read by process_options); its caches are flushed (line 125).
setup(use_dmypy, follow) ==
    /\ ~configured
    /\ \A e \in Events : pc[e] = "idle"
    /\ configured' = TRUE
    /\ useDmypy' = use_dmypy
    /\ followImports' = (use_dmypy /\ follow)
    /\ read_cache' = [p \in Paths |-> Absent]
    /\ hash_cache' = [p \in Paths |-> Absent]
    /\ flushedSince' = Recorded(flushedSince, use_dmypy \/ flushedSince)
    /\ UNCHANGED <<docs, disk, pc, uri, source, res, calls, entry, pub, client, gone,
                   recording, shownFrom, regex>>

\* The handlers that hold a pool thread: inside validate().
Active == {e \in Events : pc[e] \notin {"idle", "queued", "done", "crashed"}}

\* The event arrives: its handler is handed to the thread pool (@ls.thread()).
\* Events are numbered in the order they arrive.
Receive(e, u) ==
    /\ pc[e] = "idle"
    /\ \A d \in 1..(e - 1) : pc[d] # "idle"
    /\ pc' = [pc EXCEPT ![e] = "queued"]
    /\ uri' = [uri EXCEPT ![e] = u]
    /\ gone' = [gone EXCEPT ![e] = HasBackingPath(u) /\ UriPath(u) \notin disk]
    /\ UNCHANGED <<mode, disk, read_cache, hash_cache, source, res, calls, entry,
                   pub, client, history, regex>>

\* did_open (lines 224-228): the workspace holds the opened text.
did_open(e, u, text) ==
    /\ Receive(e, u)
    /\ docs' = [docs EXCEPT ![u] = text]

\* did_change (lines 231-235): the workspace holds the changed text of an
\* open document.
did_change(e, u, text) ==
    /\ docs[u] # NoDoc
    /\ Receive(e, u)
    /\ docs' = [docs EXCEPT ![u] = text]

\* did_save (lines 238-242): the workspace is as it was.
did_save(e, u) ==
    /\ Receive(e, u)
    /\ UNCHANGED docs

\* An except clause that reports success: no failure detail, status 0.
ErrResClean == [bound |-> TRUE, out |-> <<>>, err |-> "", status |-> 0]

\* The synthesized result of the except clause (line 178).
ErrRes == [bound |-> TRUE, out |-> <<>>, err |-> "traceback", status |-> 2]

\* text_doc.source: the buffer text, or for a document the workspace does not
\* hold, the content of its file; NoText when reading that file raises.
DocSource(u) ==
    IF docs[u] # NoDoc THEN docs[u]
    ELSE IF HasBackingPath(u) /\ UriPath(u) \in disk THEN DiskText
    ELSE NoText

\* A pool thread takes the oldest queued handler.
Taken(e) ==
    /\ pc[e] = "queued"
    /\ \A d \in 1..(e - 1) : pc[d] # "queued"
    /\ Cardinality(Active) < MaxWorkers

\* A raise inside the try of validate (lines 168-178): res is synthesized and
\* control goes to line 180.
Except(e) ==
    /\ res' = [res EXCEPT ![e] = ErrRes]
    /\ pc' = [pc EXCEPT ![e] = "publish"]

\* Lines 167-176 up to the call of check(): the document is looked up and
\* `source` is bound.
Lookup(e) ==
    /\ Taken(e)
    /\ HasBackingPath(uri[e]) => configured
    /\ DocSource(uri[e]) # NoText
    /\ source' = [source EXCEPT ![e] =
                     [bound |-> TRUE,
                      path  |-> IF HasBackingPath(uri[e]) THEN UriPath(uri[e]) ELSE None,
                      text  |-> DocSource(uri[e])]]
    /\ pc' = [pc EXCEPT ![e] = "flush"]
    /\ UNCHANGED <<mode, docs, disk, read_cache, hash_cache, uri, res, calls, entry,
                   pub, client, gone, history, regex>>

\* Lines 169-175 raise before `source` is bound: self.finder (line 172) is an
\* AttributeError before setup(), crawl_up (line 172) raises
\* InvalidSourceList under a package directory whose name is no identifier,
\* and text_doc.source (lines 173, 175) raises for a document the workspace
\* does not hold and whose file cannot be read.
LookupRaise(e) ==
    /\ Taken(e)
    /\ HasBackingPath(uri[e]) \/ DocSource(uri[e]) = NoText
    /\ Except(e)
    /\ UNCHANGED <<mode, docs, disk, read_cache, hash_cache, uri, source,
                   calls, entry, pub, client, gone, history, regex>>

\* Line 130, self.fscache.flush(): an AttributeError before setup(), which
\* the except clause of line 177 takes; otherwise every cache of the
\* FileSystemCache is emptied; then the test of line 131.
Flush(e) ==
    /\ pc[e] = "flush"
    /\ IF configured
       THEN /\ read_cache' = [p \in Paths |-> Absent]
            /\ hash_cache' = [p \in Paths |-> Absent]
            /\ pc' = [pc EXCEPT ![e] =
                        IF source[e].path # None /\ source[e].text # <<>>
                        THEN "stat" ELSE "engine"]
            /\ flushedSince' = Recorded(flushedSince, TRUE)
            /\ UNCHANGED res
       ELSE /\ Except(e)
            /\ UNCHANGED <<read_cache, hash_cache, flushedSince>>
    /\ UNCHANGED <<mode, docs, disk, uri, source, calls, entry, pub, client, gone,
                   recording, shownFrom, regex>>

\* Line 132, self.fscache.stat(source.path): os.stat raises for a missing file.
Stat(e) ==
    /\ pc[e] = "stat"
    /\ IF source[e].path \in disk
       THEN pc' = [pc EXCEPT ![e] = "read_cache"] /\ UNCHANGED res
       ELSE Except(e)
    /\ UNCHANGED <<mode, docs, disk, read_cache, hash_cache, uri, source,
                   calls, entry, pub, client, gone, history, regex>>

\* Line 133
WriteReadCache(e) ==
    /\ pc[e] = "read_cache"
    /\ read_cache' = [read_cache EXCEPT ![source[e].path] = Cached(Encode(source[e].text))]
    /\ pc' = [pc EXCEPT ![e] = "hash_cache"]
    /\ UNCHANGED <<mode, docs, disk, hash_cache, uri, source, res, calls, entry,
                   pub, client, gone, history, regex>>

\* Line 134
WriteHashCache(e) ==
    /\ pc[e] = "hash_cache"
    /\ hash_cache' = [hash_cache EXCEPT ![source[e].path] =
                         Cached(hash_digest(Encode(source[e].text)))]
    /\ pc' = [pc EXCEPT ![e] = "engine"]
    /\ UNCHANGED <<mode, docs, disk, read_cache, uri, source, res, calls, entry,
                   pub, client, gone, history, regex>>

\* The entry point check() chooses (lines 136-139, 152-155), with the branches
\* of line 152 swapped.
EntryPointSwapped ==
    IF ~useDmypy THEN "run_build"
    ELSE IF followImports THEN "fine_grained_increment"
    ELSE "fine_grained_increment_follow_imports"

\* The entry point check() chooses: run_build in one-shot mode (lines 136-139,
\* 147), else by self.server.following_imports() (lines 152-155).
EntryPoint ==
    IF ~useDmypy THEN "run_build"
    ELSE IF ~followImports THEN "fine_grained_increment"
    ELSE "fine_grained_increment_follow_imports"

\* The engine is entered: run_build (line 147), or fine_grained_increment /
\* fine_grained_increment_follow_imports (lines 152-155).
EngineCall(e) ==
    /\ pc[e] = "engine"
    /\ calls' = [calls EXCEPT ![e] = @ + 1]
    /\ entry' = [entry EXCEPT ![e] = EntryPoint]
    /\ pc' = [pc EXCEPT ![e] = "running"]
    /\ flushedSince' = Recorded(flushedSince, FALSE)
    /\ UNCHANGED <<mode, docs, disk, read_cache, hash_cache, uri, source,
                   res, pub, client, gone, recording, shownFrom, regex>>

\* run_build returns (lines 147-149): the report is the captured stdout and the
\* status is 0.
MypyReturn(e, out) ==
    /\ pc[e] = "running"
    /\ ~useDmypy
    /\ res' = [res EXCEPT ![e] = [bound |-> TRUE, out |-> out, err |-> "", status |-> 0]]
    /\ pc' = [pc EXCEPT ![e] = "publish"]
    /\ UNCHANGED <<mode, docs, disk, read_cache, hash_cache, uri, source,
                   calls, entry, pub, client, gone, history, regex>>

\* The increment returns and increment_output builds res (lines 153-156): the
\* status is 1 when there are messages.
DmypyReturn(e, out) ==
    /\ pc[e] = "running"
    /\ useDmypy
    /\ res' = [res EXCEPT ![e] =
                  [bound |-> TRUE, out |-> out, err |-> "",
                   status |-> IF out = <<>> THEN 0 ELSE 1]]
    /\ pc' = [pc EXCEPT ![e] = "flush_caches"]
    /\ UNCHANGED <<mode, docs, disk, read_cache, hash_cache, uri, source,
                   calls, entry, pub, client, gone, history, regex>>

\* Lines 157-159: self.server.flush_caches() empties the shared fscache.
FlushCaches(e) ==
    /\ pc[e] = "flush_caches"
    /\ read_cache' = [p \in Paths |-> Absent]
    /\ hash_cache' = [p \in Paths |-> Absent]
    /\ pc' = [pc EXCEPT ![e] = "publish"]
    /\ flushedSince' = Recorded(flushedSince, TRUE)
    /\ UNCHANGED <<mode, docs, disk, uri, source, res, calls, entry, pub, client, gone,
                   recording, shownFrom, regex>>

\* The engine raises (in either mode); the except clause of line 177 takes it.
EngineRaise(e) ==
    /\ pc[e] = "running"
    /\ Except(e)
    /\ UNCHANGED <<mode, docs, disk, read_cache, hash_cache, uri, source,
                   calls, entry, pub, client, gone, history, regex>>

\* validate() is left: its parameters and locals are gone and the pool thread
\* is free.  What stays of the handler is how it ended and how often it
\* published.
Leave(e, how) ==
    /\ pc' = [pc EXCEPT ![e] = how]
    /\ uri' = [uri EXCEPT ![e] = None]
    /\ source' = [source EXCEPT ![e] = Unbound]
    /\ res' = [res EXCEPT ![e] = Unbound]
    /\ calls' = [calls EXCEPT ![e] = 0]
    /\ entry' = [entry EXCEPT ![e] = NoEntry]
    /\ gone' = [gone EXCEPT ![e] = FALSE]

\* Lines 180-183 and publish_result_to_diagnostic (lines 185-218).  Line 182
\* reads source.path: with `source` unbound it raises UnboundLocalError.  An
\* exception of the translation loop leaves the function too.  No handler
\* catches either: the thread ends and nothing is published.  Otherwise
\* publish_diagnostics (line 218) replaces what the editor shows for the URI.
Publish(e) ==
    /\ pc[e] = "publish"
    /\ LET tr == Translate(uri[e], res[e].out)
       IN  IF ~source[e].bound \/ tr.raised
           THEN /\ Leave(e, "crashed")
                /\ UNCHANGED <<pub, client, shownFrom>>
           ELSE /\ pub' = [pub EXCEPT ![e] = @ + 1]
                /\ client' = [client EXCEPT ![uri[e]] = Shown(tr.diagnostics)]
                /\ shownFrom' = Recorded(shownFrom,
                                         [shownFrom EXCEPT ![uri[e]] = source[e].text])
                /\ Leave(e, "done")
    /\ UNCHANGED <<mode, docs, disk, read_cache, hash_cache, recording, flushedSince,
                   regex>>

\* The environment removes the backing file.
DeleteFile(p) ==
    /\ p \in disk
    /\ disk' = disk \ {p}
    /\ UNCHANGED <<mode, docs, read_cache, hash_cache, pc, uri, source, res,
                   calls, entry, pub, client, gone, history, regex>>

Next ==
    \/ \E use_dmypy \in BOOLEAN, follow \in BOOLEAN : setup(use_dmypy, follow)
    \/ \E e \in Events, u \in URIs, text \in Texts : did_open(e, u, text)
    \/ \E e \in Events, u \in URIs, text \in Texts : did_change(e, u, text)
    \/ \E e \in Events, u \in URIs : did_save(e, u)
    \/ \E e \in Events : Lookup(e)
    \/ \E e \in Events : LookupRaise(e)
    \/ \E e \in Events : Flush(e)
    \/ \E e \in Events : Stat(e)
    \/ \E e \in Events : WriteReadCache(e)
    \/ \E e \in Events : WriteHashCache(e)
    \/ \E e \in Events : EngineCall(e)
    \/ \E e \in Events, out \in Reports : MypyReturn(e, out)
    \/ \E e \in Events, out \in Reports : DmypyReturn(e, out)
    \/ \E e \in Events : FlushCaches(e)
    \/ \E e \in Events : EngineRaise(e)
    \/ \E e \in Events : Publish(e)
    \/ \E p \in Paths : DeleteFile(p)

Spec == Init /\ [][Next]_vars

\* The same server with its history kept.
InitHistory ==
    /\ Constructed
    /\ recording = TRUE
    /\ fields = NoFields
    /\ parsed = NotParsed

SpecHistory == InitHistory /\ [][Next]_vars

\* ------------------------------------------------- the regex on built lines

\* The longest message a line is built from.
MaxMessageLen == 5

\* The characters of the messages: those the tail of MYPY_OUTPUT_RE looks at.
MessageChars == {" ", "[", "]", ":"}

Messages == UNION {[1..n -> MessageChars] : n \in 0..MaxMessageLen}

\* The fields lines are built from: <file>:<row>[:<col>]: <severity>:
\* <message>[  [<code>]], the file without colon, row and col signed integers,
\* the code without "]".
LineFields ==
    [built    : {TRUE},
     file     : {<<"a">>},
     row      : {<<"1">>, <<"-", "2">>},
     col      : {None, <<"+", "3">>},
     severity : {SevError, SevNote},
     message  : Messages,
     code     : {None, <<"c">>}]

\* The report line of the fields, as mypy writes it under the flags of lines
\* 78-85.
BuildLine(f) ==
    f.file \o <<":">> \o f.row
      \o (IF f.col = None THEN <<>> ELSE <<":">> \o f.col)
      \o <<":", " ">> \o f.severity \o <<":", " ">> \o f.message
      \o (IF f.code = None THEN <<>> ELSE <<" ", " ", "[">> \o f.code \o <<"]">>)

InitRegex ==
    /\ Constructed
    /\ recording = FALSE
    /\ fields \in LineFields
    /\ parsed = NotParsed

\* MYPY_OUTPUT_RE.match on the built line (line 191).
MatchLine ==
    /\ fields # NoFields
    /\ parsed = NotParsed
    /\ parsed' = Match(BuildLine(fields))
    /\ UNCHANGED <<mode, docs, disk, read_cache, hash_cache, pc, uri, source, res,
                   calls, entry, pub, client, gone, history, fields>>

NextRegex == MatchLine

SpecRegex == InitRegex /\ [][NextRegex]_vars

\* ------------------------------------------------------------ properties

\* validate() of handler e ends in this step, by publishing or by an
\* exception nothing catches.
Ends(e) == pc[e] = "publish" /\ pc'[e] \in {"done", "crashed"}

\* Handler e calls publish_diagnostics in this step.
Publishes(e) == pc[e] = "publish" /\ pc'[e] = "done"

\* The list handler e passes to publish_diagnostics in this step.
Sent(e) == client'[uri[e]].diagnostics

\* f is a suffix of u.
IsSuffixOf(f, u) == \E k \in 0..Len(u) : SubSeq(u, k + 1, Len(u)) = f

\* The findings of a report for a document: the matches of the lines that
\* match the grammar and name a file that is a suffix of the URI, in the order
\* of the report.
Findings(u, out) ==
    LET Mine(line) == Match(line).matched /\ IsSuffixOf(Match(line).file, u)
        mine       == SelectSeq(SplitLines(out), Mine)
    IN  [i \in 1..Len(mine) |-> Match(mine[i])]

FindingsOf == [u \in URIs |-> [out \in Reports |-> Findings(u, out)]]

\* The findings whose severity is one of error, warning, note.
ListedFindings(u, out) ==
    LET Listed(f) == f.severity \in {SevError, SevWarning, SevNote}
    IN  SelectSeq(FindingsOf[u][out], Listed)

\* What identifies the report line a finding or a diagnostic comes from.
Keys(seq) == [i \in 1..Len(seq) |-> <<seq[i].message, seq[i].code>>]

\* Handler e is inside check() and has flushed the overlay: from line 131 to
\* the return of the engine adapter.
InCheck(e) ==
    pc[e] \in {"stat", "read_cache", "hash_cache", "engine", "running", "flush_caches"}

\* C1: at most one check is in flight: no handler mutates the overlay or
\* invokes the engine while another handler's check has not finished.
C1_OneCheckInFlight ==
    \A d, e \in Events : d # e => ~(InCheck(d) /\ InCheck(e))

\* C2: of two overlapping requests, the engine invocation of the second never
\* starts before the first has published (or ended).
C2_SecondWaitsForPublication ==
    \A d, e \in Events :
        (d < e /\ pc[e] \in {"running", "flush_caches"}) => pc[d] \in {"done", "crashed"}

\* C3: every handled event ends with exactly one publish_diagnostics call, made
\* against the URI of the document that triggered it (and no other URI).
C3_EveryEventPublishesOnce ==
    [][\A e \in Events :
          Ends(e) => /\ pub'[e] = 1
                     /\ client'[uri[e]].shown
                     /\ \A u \in URIs \ {uri[e]} : client'[u] = client[u]]_vars

\* C4: publication is replacement: every diagnostic of a published list comes
\* from a line of the report of the same check, and a report with no finding
\* for the document publishes the empty list whatever the editor showed.
C4_ReplacementNotAccumulation ==
    [][\A e \in Events :
          Publishes(e) =>
              LET found == FindingsOf[uri[e]][res[e].out]
              IN  /\ \A i \in 1..Len(Sent(e)) :
                        \E j \in 1..Len(found) : Keys(Sent(e))[i] = Keys(found)[j]
                  /\ found = <<>> => Sent(e) = <<>>]_vars

\* A check with no finding is about to publish for a document the editor
\* shows a non-empty list for.
C4_CleanReportOverShownList ==
    \E e \in Events :
        /\ pc[e] = "publish" /\ source[e].bound
        /\ res[e].err = "" /\ res[e].out = ReportClean
        /\ client[uri[e]].shown /\ client[uri[e]].diagnostics # <<>>

\* C5: when an exception is raised during lookup, overlay update, engine
\* invocation or translation, the handler still publishes: the empty list, for
\* the triggering URI, from a result with empty output and nonzero status
\* when the exception came before the translation.
C5_ExceptionStillPublishes ==
    [][\A e \in Events :
          (Ends(e) /\ (res[e].err # "" \/ Translate(uri[e], res[e].out).raised))
              => /\ Publishes(e)
                 /\ Sent(e) = <<>>
                 /\ res[e].err # "" => (res[e].out = <<>> /\ res[e].status # 0)]_vars

\* C6: for an event on a file:// URI whose file is gone (and whose buffer text
\* was obtained), the engine is not invoked and the empty list is published,
\* whatever the buffer text.
C6_MissingFileSkipsEngine ==
    [][\A e \in Events :
          (gone[e] /\ source[e].bound)
              => /\ calls'[e] = 0
                 /\ Ends(e) => (Publishes(e) /\ Sent(e) = <<>>)]_vars

\* C7: a line whose severity is not error, warning or note is dropped alone:
\* the check still publishes, and the list holds the diagnostics of all the
\* other findings of the document.
C7_UnlistedSeverityDropsOnlyItsLine ==
    [][\A e \in Events :
          (Ends(e) /\ source[e].bound)
              => /\ Publishes(e)
                 /\ Keys(Sent(e)) = Keys(ListedFindings(uri[e], res[e].out))]_vars

\* C8: a published list is never partial: it is empty or has one diagnostic
\* for every grammar-matching line of the document in the check's report.
C8_NeverPartial ==
    [][\A e \in Events :
          Publishes(e) =>
              \/ Sent(e) = <<>>
              \/ Len(Sent(e)) = Len(FindingsOf[uri[e]][res[e].out])]_vars

\* One handler ended on an exception and published nothing; another published
\* the complete two-diagnostic list of its report.
C8_CrashedAndComplete ==
    \E d, e \in Events :
        /\ pc[d] = "crashed" /\ pub[d] = 0
        /\ pc[e] = "done" /\ pub[e] = 1
        /\ \E u \in URIs : client[u].shown /\ Len(client[u].diagnostics) = Len(<<LineCoded, LineNote>>)

\* C9: the published list is exactly, in report order, the findings whose file
\* is a suffix of the triggering URI; findings of other files are not in it.
C9_FilteredInReportOrder ==
    [][\A e \in Events :
          Publishes(e) => Keys(Sent(e)) = Keys(FindingsOf[uri[e]][res[e].out])]_vars

\* The same kind of report was published for both documents: "/a.py" and
\* "a.py" findings under file:///a.py, only the "a.py" finding under u:a.py.
C9_SuffixDecides ==
    /\ client[UriFile].shown /\ client[UriUntitled].shown
    /\ Keys(client[UriFile].diagnostics) = <<<<<<"m">>, <<"c">>>>, <<<<"n">>, None>>>>
    /\ Keys(client[UriUntitled].diagnostics) = <<<<<<"n">>, None>>>>

\* C10: a finding at 1-based (row, col), col defaulting to 1, is published with
\* start (row-1, col-1) and end (row-1, col).
C10_CoordinateConversion ==
    [][\A e \in Events :
          Publishes(e) =>
              LET found == FindingsOf[uri[e]][res[e].out]
              IN  /\ Len(Sent(e)) = Len(found)
                  /\ \A i \in 1..Len(found) :
                        LET row == ParseInt(found[i].row)
                            col == IF found[i].col = None THEN 1 ELSE ParseInt(found[i].col)
                        IN  /\ Sent(e)[i].start = <<row - 1, col - 1>>
                            /\ Sent(e)[i].end = <<row - 1, col>>]_vars

\* "/a.py:3:12: ..." is shown at (2, 11)-(2, 12) and "a.py:5: ..." at
\* (4, 0)-(4, 1).
C10_ShownRanges ==
    /\ client[UriFile].shown
    /\ Len(client[UriFile].diagnostics) = Len(<<LineCoded, LineNote>>)
    /\ client[UriFile].diagnostics[1].start = <<2, 11>>
    /\ client[UriFile].diagnostics[1].end = <<2, 12>>
    /\ client[UriFile].diagnostics[2].start = <<4, 0>>
    /\ client[UriFile].diagnostics[2].end = <<4, 1>>

\* What matching the built line has to give back: the fields it was built from.
Recovered(f) ==
    [matched  |-> TRUE,
     file     |-> f.file,
     row      |-> f.row,
     col      |-> f.col,
     severity |-> f.severity,
     message  |-> f.message,
     code     |-> f.code]

\* The message itself ends like a bracketed code: two spaces, "[", at least
\* one character that is no "]", and "]".
EndsLikeCode(message) ==
    \E k \in 1..Len(message) :
        /\ k + 3 < Len(message)
        /\ Slice(message, k, k + 2) = <<" ", " ", "[">>
        /\ message[Len(message)] = "]"
        /\ \A i \in (k + 3)..(Len(message) - 1) : message[i] # "]"

\* The message holds two spaces and "[" with no "]" after them: a code that
\* follows closes that bracket.
OpensCode(message) ==
    \E k \in 1..Len(message) :
        /\ k + 2 <= Len(message)
        /\ Slice(message, k, k + 2) = <<" ", " ", "[">>
        /\ \A i \in (k + 3)..Len(message) : message[i] # "]"

\* The built line reads one way only: without a code the message does not end
\* like one, with a code the message leaves no bracket open before it.
Unambiguous(f) ==
    IF f.code = None THEN ~EndsLikeCode(f.message) ELSE ~OpensCode(f.message)

\* C11 as written: matching a built line gives back the fields it was built
\* from, whatever the message.
C11_RoundTrip ==
    parsed # NotParsed => parsed = Recovered(fields)

\* C11: matching a built line gives back exactly the file, row, col, severity,
\* message and code it was built from (col and code None when absent), and a
\* trailing "  [code]" is the code and no part of the message, provided the
\* line reads one way only: a message without code does not itself end like a
\* bracketed code, and a message with a code leaves no "  [" open before it.
C11_RoundTripUnambiguous ==
    (parsed # NotParsed /\ Unambiguous(fields)) => parsed = Recovered(fields)

\* A line with a code whose message ends like a code too was matched, and the
\* code came back as the code.
C11_CodedLineMatched ==
    /\ parsed # NotParsed
    /\ fields.code # None
    /\ EndsLikeCode(fields.message)
    /\ parsed.code = fields.code
    /\ parsed.message = fields.message

\* The step is line 130 of a check that stores no override for the path p: a
\* check triggered by another document, or one of an empty buffer.
BeginsCheckNotOf(e, p) ==
    /\ pc[e] = "flush" /\ pc'[e] # "flush"
    /\ source[e].path # p \/ source[e].text = <<>>

\* C12: while no two checks overlap, the override bytes a check stored for a
\* path are still in the overlay, unchanged, when a later check that stores
\* nothing for that path has begun.
C12_OverridePersists ==
    [][\A p \in Paths, e \in Events :
          (read_cache[p].cached /\ Active = {e} /\ BeginsCheckNotOf(e, p))
              => read_cache'[p] = read_cache[p]]_vars

\* The handler e has run to its end.
Handled(e) == pc[e] \in {"done", "crashed"}

\* C13: an event that arrives while setup() has not run makes its handler
\* perform the configuration before the check: once a handler has ended, the
\* session is configured.
C13_EventConfiguresSession ==
    \A e \in Events : Handled(e) => configured

\* What the handlers share: the session, the workspace, the overlay and what
\* the editor shows.
shared == <<mode, docs, disk, read_cache, hash_cache, client>>

\* The engine entry point was called once for the event of e and raised.
EngineFailed(e) ==
    pc[e] = "publish" /\ calls[e] = 1 /\ res[e].err # ""

\* C14: when the engine entry point raises inside check(), the result has a
\* nonzero status and a non-empty failure detail, and the handler goes on to
\* the publication without entering the engine again; it then publishes
\* exactly once, the empty list, for the triggering URI; no handler ever
\* enters the engine twice; and the failure changes nothing that the handlers
\* share, so a later event is checked as if it had not happened.
C14_EngineFailureDegrades ==
    [][\A e \in Events :
          /\ calls'[e] <= 1
          /\ EngineRaise(e) =>
                /\ res'[e].status # 0 /\ res'[e].err # ""
                /\ EngineFailed(e)'
                /\ UNCHANGED shared
                /\ \A d \in Events \ {e} : pc'[d] = pc[d]
          /\ (EngineFailed(e) /\ pc'[e] # pc[e]) =>
                /\ Publishes(e) /\ Sent(e) = <<>> /\ pub'[e] = 1
                /\ \A u \in URIs \ {uri[e]} : client'[u] = client[u]]_vars

\* One-shot mode: the engine raised for an event whose handler is about to
\* publish, and an event that arrived later has been checked and published a
\* list that is not empty.
C14_FailedThenLaterEventShown ==
    \E e, d \in Events :
        /\ ~useDmypy /\ e < d
        /\ EngineFailed(e)
        /\ pc[d] = "done" /\ pub[d] = 1
        /\ \E u \in URIs \ {uri[e]} : client[u].shown /\ client[u].diagnostics # <<>>

\* C15: the source built for a document whose URI does not start with
\* file:// carries a synthetic path, and no other check that is under way
\* carries the same path.
C15_SyntheticPathUnique ==
    \A e \in Events :
        (source[e].bound /\ ~HasBackingPath(uri[e]))
            => /\ source[e].path # None
               /\ \A d \in Events \ {e} :
                     source[d].bound => source[d].path # source[e].path

\* Handler e enters the engine in this step.
EntersEngine(e) == pc[e] = "engine" /\ pc'[e] = "running"

\* C16: when the engine is entered for a document with a backing path, the
\* overlay holds, for that path, the bytes of the buffer text the check was
\* given and the digest of those bytes, whatever the text, the empty one
\* included.
C16_OverlayHoldsBufferAtEngineCall ==
    [][\A e \in Events :
          (EntersEngine(e) /\ source[e].path # None)
              => LET bytes == Encode(source[e].text)
                 IN  /\ read_cache[source[e].path] = Cached(bytes)
                     /\ hash_cache[source[e].path] = Cached(hash_digest(bytes))]_vars

\* The engine is running for some handler: it reads the overlay.
EngineObserves == \E e \in Events : pc[e] = "running"

\* C17: whenever the engine is running, every path that has override bytes in
\* read_cache has in hash_cache the digest of exactly those bytes.
C17_DigestMatchesBytes ==
    EngineObserves =>
        \A p \in Paths :
            read_cache[p].cached
                => hash_cache[p] = Cached(hash_digest(read_cache[p].value))

\* C18: every check begins with a flush, so between any two entries into the
\* engine the fscache is flushed at least once: whenever a handler enters the
\* engine, a flush has happened since the engine was last entered.
C18_FlushBetweenEngineCalls ==
    [][\A e \in Events : EntersEngine(e) => flushedSince]_vars

\* C19: in incremental mode a check enters the engine through exactly one
\* entry point, fine_grained_increment_follow_imports when the server's
\* following_imports() is true and fine_grained_increment otherwise (and
\* through run_build in one-shot mode); it keeps that one entry point until
\* validate() is left; and the mode changes in no step but setup().
C19_OneEntryPointByFollowImports ==
    [][/\ configured => (configured' /\ useDmypy' = useDmypy)
       /\ \A e \in Events :
             /\ calls'[e] <= 1
             /\ EntersEngine(e) =>
                   /\ calls'[e] = 1
                   /\ useDmypy =>
                         entry'[e] = IF followImports
                                     THEN "fine_grained_increment_follow_imports"
                                     ELSE "fine_grained_increment"
                   /\ ~useDmypy => entry'[e] = "run_build"
             /\ (entry[e] # NoEntry /\ ~Ends(e)) => entry'[e] = entry[e]]_vars

\* Incremental mode without followed imports: a check has finished, and a
\* second one is inside fine_grained_increment.
C19_SecondIncrementalCheck ==
    \E d, e \in Events :
        /\ useDmypy /\ ~followImports
        /\ pc[d] = "done"
        /\ pc[e] = "running" /\ calls[e] = 1
        /\ entry[e] = "fine_grained_increment"

\* No handler is waiting or running, and none ended without publishing.
AllPublished == \A e \in Events : pc[e] \in {"idle", "done"}

\* C20: in a session that was set up, once every handler has finished (and
\* published), the list the editor shows for an open document was computed
\* from the document's latest buffer text.
C20_FinalResultFromLatestText ==
    (configured /\ AllPublished) =>
        \A u \in URIs :
            (docs[u] # NoDoc /\ client[u].shown) => shownFrom[u] = docs[u]

====
